---- MODULE Spec2Model ----
(***************************************************************************)
(* Model of src/app.py: the T-SQL to PostgreSQL conversion pipeline        *)
(* (clean_sql_input -> groq_convert_sql -> validate_postgresql, composed   *)
(* by convert_to_postgresql) and the Flask handler index() that calls it.  *)
(*                                                                         *)
(* A text is a sequence of characters, each character a one-character     *)
(* string.  The backtick cannot be written inside a TLA+ string, so the    *)
(* symbol BQ stands for it.  Fixed user-visible texts (sentinels, banner   *)
(* lines, validation messages) are kept as single strings; an output text  *)
(* is the sequence of its pieces, read as their concatenation.  The        *)
(* non-ASCII glyphs of the banner and sentinel literals are transcribed    *)
(* to ASCII.                                                               *)
(***************************************************************************)
EXTENDS Integers, Sequences, FiniteSets, TLC

VARIABLES
    USE_AI,     \* module-level capability flag, set while app.py is imported
    pc,         \* per request: control point of the handler
    request,    \* per request: the submitted form (method, file, sql_text field)
    sql_text,   \* per request: index()'s local sql_text
    body,       \* per request: convert_to_postgresql's sql_text after clean_sql_input
    reply,      \* per request: what the remote completion call did
    result,     \* per request: groq_convert_sql's return value (None or Some(text))
    issues,     \* per request: validate_postgresql's report
    returned,   \* per request: convert_to_postgresql's return value (None until it returns)
    converted,  \* per request: index()'s local converted, the text rendered
    calls,      \* per request: number of calls of convert_to_postgresql
    submits,    \* per request: number of completion requests sent to the backend
    trace,      \* per request: the pipeline stages entered, in order
    log,        \* the operational log (stdout)
    fn_pc,      \* harness for the pure functions: "none", "in" or "out"
    fn_in,      \* harness: the argument text
    fn_out      \* harness: the function's value

vars == <<USE_AI, pc, request, sql_text, body, reply, result, issues, returned,
          converted, calls, submits, trace, log, fn_pc, fn_in, fn_out>>

\* Bounds of the model.
MaxLines == 4
MaxRawLines == 2
MaxPieces == 4
MaxResidues == 2
NumRequests == 2

----------------------------------------------------------------------------
\* Characters and Python's str methods.

BQ == "BACKTICK"

UpperCase == <<"A", "B", "C", "D", "E", "F", "G", "H", "I", "J", "K", "L", "M",
               "N", "O", "P", "Q", "R", "S", "T", "U", "V", "W", "X", "Y", "Z">>
LowerCase == <<"a", "b", "c", "d", "e", "f", "g", "h", "i", "j", "k", "l", "m",
               "n", "o", "p", "q", "r", "s", "t", "u", "v", "w", "x", "y", "z">>
Digits == {"0", "1", "2", "3", "4", "5", "6", "7", "8", "9"}

Range(s) == {s[i] : i \in DOMAIN s}

\* str.isspace() / regex \s, over the characters of the model
IsSpace(c) == c \in {" ", "\t", "\n", "\r", "\f"}

\* the line boundaries str.splitlines() recognises, over the characters of the model
IsLineBreak(c) == c \in {"\n", "\r", "\f"}

\* regex \w
IsWord(c) == c \in Range(UpperCase) \cup Range(LowerCase) \cup Digits \cup {"_"}

LowerChar(c) ==
    IF \E i \in DOMAIN UpperCase : UpperCase[i] = c
    THEN LowerCase[CHOOSE i \in DOMAIN UpperCase : UpperCase[i] = c]
    ELSE c

\* str.lower()
lower(s) == [i \in DOMAIN s |-> LowerChar(s[i])]

\* str.strip()
strip(s) ==
    IF \A i \in DOMAIN s : IsSpace(s[i]) THEN <<>>
    ELSE LET first == CHOOSE i \in DOMAIN s :
                         ~IsSpace(s[i]) /\ \A j \in 1..(i - 1) : IsSpace(s[j])
             last  == CHOOSE i \in DOMAIN s :
                         ~IsSpace(s[i]) /\ \A j \in (i + 1)..Len(s) : IsSpace(s[j])
         IN  SubSeq(s, first, last)

\* str.startswith(prefix)
startswith(s, prefix) ==
    Len(prefix) <= Len(s) /\ SubSeq(s, 1, Len(prefix)) = prefix

\* str.splitlines(): lines without their line boundaries; "\r\n" is one boundary;
\* a boundary at the very end opens no further line.
RECURSIVE SplitFrom(_, _)
SplitFrom(s, i) ==
    IF i > Len(s) THEN <<>>
    ELSE LET eol == IF \E j \in i..Len(s) : IsLineBreak(s[j])
                    THEN CHOOSE j \in i..Len(s) :
                             IsLineBreak(s[j]) /\ \A k \in i..(j - 1) : ~IsLineBreak(s[k])
                    ELSE Len(s) + 1
             next == IF eol <= Len(s) /\ s[eol] = "\r" /\ eol + 1 <= Len(s) /\ s[eol + 1] = "\n"
                     THEN eol + 2
                     ELSE eol + 1
         IN  <<SubSeq(s, i, eol - 1)>> \o SplitFrom(s, next)

splitlines(s) == SplitFrom(s, 1)

\* sep.join(parts)
RECURSIVE join(_, _)
join(sep, parts) ==
    IF parts = <<>> THEN <<>>
    ELSE IF Len(parts) = 1 THEN parts[1]
    ELSE parts[1] \o sep \o join(sep, Tail(parts))

----------------------------------------------------------------------------
\* clean_sql_input (app.py 29-46)

DeclarationPrefixes ==
    << <<"c", "r", "e", "a", "t", "e", " ", "p", "r", "o", "c", "e", "d", "u", "r", "e">>,
       <<"c", "r", "e", "a", "t", "e", " ", "p", "r", "o", "c">>,
       <<"a", "l", "t", "e", "r", " ", "p", "r", "o", "c", "e", "d", "u", "r", "e">>,
       <<"a", "l", "t", "e", "r", " ", "p", "r", "o", "c">> >>

\* mutant: the prefix is looked for anywhere in the line ("in" for startswith)
StartsDeclaration_Contains(stripped) ==
    \E k \in DOMAIN DeclarationPrefixes :
        \E i \in 0..Len(stripped) :
            startswith(SubSeq(stripped, i + 1, Len(stripped)), DeclarationPrefixes[k])

\* line 39: stripped.startswith((...))
StartsDeclaration(stripped) ==
    \E k \in DOMAIN DeclarationPrefixes : startswith(stripped, DeclarationPrefixes[k])

\* mutant: blank lines are kept
KeepInBody_Blank(stripped) == stripped # <<"g", "o">>

\* line 43: stripped not in ("go", "")
KeepInBody(stripped) == stripped \notin {<<"g", "o">>, <<>>}

\* mutant: the declaration line itself is dropped with the preamble
RECURSIVE CleanLoop_SkipDeclaration(_, _, _, _)
CleanLoop_SkipDeclaration(lines, i, found_create, cleaned_lines) ==
    IF i > Len(lines) THEN cleaned_lines
    ELSE LET line     == lines[i]
             stripped == lower(strip(line))
         IN  IF ~found_create
             THEN CleanLoop_SkipDeclaration(lines, i + 1, StartsDeclaration(stripped), cleaned_lines)
             ELSE IF KeepInBody(stripped)
                  THEN CleanLoop_SkipDeclaration(lines, i + 1, TRUE, Append(cleaned_lines, line))
                  ELSE CleanLoop_SkipDeclaration(lines, i + 1, TRUE, cleaned_lines)

\* the for loop of lines 36-44, from line i on, with the loop's two variables
RECURSIVE CleanLoop(_, _, _, _)
CleanLoop(lines, i, found_create, cleaned_lines) ==
    IF i > Len(lines) THEN cleaned_lines
    ELSE LET line     == lines[i]
             stripped == lower(strip(line))
         IN  IF ~found_create
             THEN IF StartsDeclaration(stripped)
                  THEN CleanLoop(lines, i + 1, TRUE, Append(cleaned_lines, line))
                  ELSE CleanLoop(lines, i + 1, FALSE, cleaned_lines)
             ELSE IF KeepInBody(stripped)
                  THEN CleanLoop(lines, i + 1, TRUE, Append(cleaned_lines, line))
                  ELSE CleanLoop(lines, i + 1, TRUE, cleaned_lines)

clean_sql_input(text) ==
    join(<<"\n">>, CleanLoop(splitlines(text), 1, FALSE, <<>>))

----------------------------------------------------------------------------
\* Regular expressions (module re).  A position is the number of characters
\* before it, 0..Len(t).  Each construct maps the set of positions where a match
\* may begin to the set of positions where it may end, so a pattern is the
\* composition of its constructs and re.search succeeds iff the pattern, begun
\* anywhere, can end somewhere.

Anywhere(t) == 0..Len(t)

\* a literal, case-sensitive
Lit(t, P, s) ==
    {p + Len(s) : p \in {q \in P : /\ q + Len(s) <= Len(t)
                                    /\ t[q + 1] = s[1]
                                    /\ SubSeq(t, q + 1, q + Len(s)) = s}}

\* a literal under re.IGNORECASE
LitI(t, P, s) ==
    {p + Len(s) : p \in {q \in P : /\ q + Len(s) <= Len(t)
                                    /\ LowerChar(t[q + 1]) = LowerChar(s[1])
                                    /\ lower(SubSeq(t, q + 1, q + Len(s))) = lower(s)}}

\* \s* (min = 0) and \s+ (min = 1)
Spaces(t, P, min) ==
    UNION {{q \in (p + min)..Len(t) : \A k \in (p + 1)..q : IsSpace(t[k])} : p \in P}

\* \w+
Words(t, P) ==
    UNION {{q \in (p + 1)..Len(t) : \A k \in (p + 1)..q : IsWord(t[k])} : p \in P}

\* \b
WordBoundary(t, P) ==
    {p \in P : (p > 0 /\ IsWord(t[p])) # (p < Len(t) /\ IsWord(t[p + 1]))}

\* $ without re.MULTILINE: the end of the text, or just before a final newline
AtEnd(t, P) ==
    {p \in P : p = Len(t) \/ (p = Len(t) - 1 /\ t[Len(t)] = "\n")}

\* ^ without re.MULTILINE
AtStart(P) == P \cap {0}

Max(S) == CHOOSE m \in S : \A n \in S : n <= m
Min(S) == CHOOSE m \in S : \A n \in S : m <= n

----------------------------------------------------------------------------
\* validate_postgresql (app.py 286-315)

\* r'CREATE\s+(?:OR\s+REPLACE\s+)?FUNCTION'
ReCreateFunction(t, P) ==
    LET create == Spaces(t, LitI(t, P, <<"C", "R", "E", "A", "T", "E">>), 1)
        orrepl == Spaces(t, LitI(t, Spaces(t, LitI(t, create, <<"O", "R">>), 1), <<"R", "E", "P", "L", "A", "C", "E">>), 1)
    IN  LitI(t, create \cup orrepl, <<"F", "U", "N", "C", "T", "I", "O", "N">>)

\* r'RETURNS\s+(?:VOID|TABLE|SETOF)'
ReReturns(t, P) ==
    LET returns == Spaces(t, LitI(t, P, <<"R", "E", "T", "U", "R", "N", "S">>), 1)
    IN  LitI(t, returns, <<"V", "O", "I", "D">>) \cup LitI(t, returns, <<"T", "A", "B", "L", "E">>) \cup LitI(t, returns, <<"S", "E", "T", "O", "F">>)

\* r'LANGUAGE\s+plpgsql'
ReLanguage(t, P) ==
    LitI(t, Spaces(t, LitI(t, P, <<"L", "A", "N", "G", "U", "A", "G", "E">>), 1), <<"p", "l", "p", "g", "s", "q", "l">>)

\* r'AS\s+\$\$'
ReAsDollar(t, P) ==
    LitI(t, Spaces(t, LitI(t, P, <<"A", "S">>), 1), <<"$", "$">>)

\* r'\$\$\s*;?\s*$'
ReClosingDollar(t, P) ==
    LET dollars == Spaces(t, LitI(t, P, <<"$", "$">>), 0)
    IN  AtEnd(t, Spaces(t, dollars \cup LitI(t, dollars, <<";">>), 0))

\* r'@\w+'
ReAtSymbol(t, P) == Words(t, LitI(t, P, <<"@">>))

\* r'\bGO\b'
ReGo(t, P) == WordBoundary(t, LitI(t, WordBoundary(t, P), <<"G", "O">>))

\* r'CREATE\s+PROCEDURE'
ReCreateProcedure(t, P) ==
    LitI(t, Spaces(t, LitI(t, P, <<"C", "R", "E", "A", "T", "E">>), 1), <<"P", "R", "O", "C", "E", "D", "U", "R", "E">>)

\* r'SET\s+NOCOUNT'
ReSetNocount(t, P) ==
    LitI(t, Spaces(t, LitI(t, P, <<"S", "E", "T">>), 1), <<"N", "O", "C", "O", "U", "N", "T">>)

\* r'GETDATE\(\)'
ReGetdate(t, P) == LitI(t, P, <<"G", "E", "T", "D", "A", "T", "E", "(", ")">>)

Match(pattern, t, P) ==
    CASE pattern = "CREATE FUNCTION"  -> ReCreateFunction(t, P)
      [] pattern = "RETURNS"          -> ReReturns(t, P)
      [] pattern = "LANGUAGE"         -> ReLanguage(t, P)
      [] pattern = "AS $$"            -> ReAsDollar(t, P)
      [] pattern = "$$"               -> ReClosingDollar(t, P)
      [] pattern = "@"                -> ReAtSymbol(t, P)
      [] pattern = "GO"               -> ReGo(t, P)
      [] pattern = "CREATE PROCEDURE" -> ReCreateProcedure(t, P)
      [] pattern = "SET NOCOUNT"      -> ReSetNocount(t, P)
      [] pattern = "GETDATE()"        -> ReGetdate(t, P)

\* re.search(pattern, t, re.IGNORECASE) is not None
re_search(pattern, t) == Match(pattern, t, Anywhere(t)) # {}

\* the dict of lines 290-296, in insertion order
required_patterns ==
    << [pattern |-> "CREATE FUNCTION", message |-> "Missing CREATE FUNCTION"],
       [pattern |-> "RETURNS",         message |-> "Missing RETURNS clause"],
       [pattern |-> "LANGUAGE",        message |-> "Missing LANGUAGE plpgsql"],
       [pattern |-> "AS $$",           message |-> "Missing AS $$ delimiter"],
       [pattern |-> "$$",              message |-> "Missing closing $$"] >>

\* the dict of lines 303-309, in insertion order
remnants ==
    << [pattern |-> "@",                message |-> "Contains @ symbols (should be p_ or v_)"],
       [pattern |-> "GO",               message |-> "Contains GO statement"],
       [pattern |-> "CREATE PROCEDURE", message |-> "Contains CREATE PROCEDURE"],
       [pattern |-> "SET NOCOUNT",      message |-> "Contains SET NOCOUNT"],
       [pattern |-> "GETDATE()",        message |-> "Contains GETDATE() (should be CURRENT_TIMESTAMP)"] >>

\* mutant: a required pattern is reported when it is found
RECURSIVE RequiredLoop_Found(_, _, _)
RequiredLoop_Found(pg_sql, k, found_issues) ==
    IF k > Len(required_patterns) THEN found_issues
    ELSE IF re_search(required_patterns[k].pattern, pg_sql)
         THEN RequiredLoop_Found(pg_sql, k + 1, Append(found_issues, required_patterns[k].message))
         ELSE RequiredLoop_Found(pg_sql, k + 1, found_issues)

\* lines 298-300: for pattern, message in required_patterns.items()
RECURSIVE RequiredLoop(_, _, _)
RequiredLoop(pg_sql, k, found_issues) ==
    IF k > Len(required_patterns) THEN found_issues
    ELSE IF ~re_search(required_patterns[k].pattern, pg_sql)
         THEN RequiredLoop(pg_sql, k + 1, Append(found_issues, required_patterns[k].message))
         ELSE RequiredLoop(pg_sql, k + 1, found_issues)

\* lines 311-313: for pattern, message in remnants.items()
RECURSIVE RemnantLoop(_, _, _)
RemnantLoop(pg_sql, k, found_issues) ==
    IF k > Len(remnants) THEN found_issues
    ELSE IF re_search(remnants[k].pattern, pg_sql)
         THEN RemnantLoop(pg_sql, k + 1, Append(found_issues, remnants[k].message))
         ELSE RemnantLoop(pg_sql, k + 1, found_issues)

validate_postgresql(pg_sql) ==
    RemnantLoop(pg_sql, 1, RequiredLoop(pg_sql, 1, <<>>))

----------------------------------------------------------------------------
\* groq_convert_sql's treatment of the returned content (app.py 273-280)

None == <<>>
Some(x) == <<x>>

Fence == <<BQ, BQ, BQ>>

\* r'^```(?:sql|postgresql)?\s*\n' under re.IGNORECASE
ReFenceOpen(t, P) ==
    LET ticks == LitI(t, AtStart(P), Fence)
        tag   == LitI(t, ticks, <<"s", "q", "l">>) \cup LitI(t, ticks, <<"p", "o", "s", "t", "g", "r", "e", "s", "q", "l">>)
    IN  Lit(t, Spaces(t, ticks \cup tag, 0), <<"\n">>)

\* r'\n```\s*$'
ReFenceClose(t, P) ==
    AtEnd(t, Spaces(t, Lit(t, P, <<"\n">> \o Fence), 0))

\* re.sub(r'^```(?:sql|postgresql)?\s*\n', '', t, flags=re.IGNORECASE): the match
\* can only begin at 0; the optional tag and \s* are greedy, so it is the longest.
SubFenceOpen(t) ==
    IF ReFenceOpen(t, {0}) = {} THEN t
    ELSE SubSeq(t, Max(ReFenceOpen(t, {0})) + 1, Len(t))

\* re.sub(r'\n```\s*$', '', t): the leftmost match; it runs to the end of the
\* text, so there is no second one.
SubFenceClose(t) ==
    IF ReFenceClose(t, Anywhere(t)) = {} THEN t
    ELSE LET start == Min({p \in Anywhere(t) : ReFenceClose(t, {p}) # {}})
             end   == Max(ReFenceClose(t, {start}))
         IN  SubSeq(t, 1, start) \o SubSeq(t, end + 1, Len(t))

\* lines 273-280
CleanMarkdown(content) == strip(SubFenceClose(SubFenceOpen(strip(content))))

----------------------------------------------------------------------------
\* The texts convert_to_postgresql returns (app.py 317-353)

EmptyInput == <<"-- Error: Empty input">>
NoDeclarationFound == <<"-- Error: No CREATE PROCEDURE found">>
BackendCallFailed == <<"-- [x] AI conversion failed. Check API key and connection.">>
SetupInstructions ==
    <<"-- [x] Groq AI Not Configured\n\nTo enable accurate conversion:\n1. Get free API key: https://console.groq.com\n2. Install: pip install groq  \n3. Set: export GROQ_API_KEY='your-key'\n4. Restart application\n\nWithout AI, accurate conversion is not guaranteed.">>
WarningHeader == "-- (!)  Validation Warnings:\n"
Bullet == "-- * "
CautionNote == "-- Please review carefully.\n\n"
SuccessBanner == "-- [ok] Conversion Successful & Validated\n\n"

\* Python truthiness of groq_convert_sql's value: None and '' are both false
Truthy(res) == res # None /\ res[1] # <<>>

\* mutant: "=" for "+=", each line overwrites the banner so far
RECURSIVE WarningLoop_Overwrite(_, _, _)
WarningLoop_Overwrite(found_issues, k, warning) ==
    IF k > Len(found_issues) THEN warning
    ELSE WarningLoop_Overwrite(found_issues, k + 1, <<Bullet, found_issues[k], "\n">>)

\* lines 336-337: for issue in issues: warning += f"-- * {issue}\n"
RECURSIVE WarningLoop(_, _, _)
WarningLoop(found_issues, k, warning) ==
    IF k > Len(found_issues) THEN warning
    ELSE WarningLoop(found_issues, k + 1, warning \o <<Bullet, found_issues[k], "\n">>)

\* lines 332-341: the banner and the translated text
Annotate(text) ==
    LET found_issues == validate_postgresql(text)
    IN  IF found_issues # <<>>
        THEN WarningLoop(found_issues, 1, <<WarningHeader>>) \o <<CautionNote>> \o text
        ELSE <<SuccessBanner>> \o text

----------------------------------------------------------------------------
\* The environment: startup, submitted forms, the backend's behaviour

\* lines 14-27: the flag is set once, while the module is imported
Startup(groq_installed, api_key) ==
    IF ~groq_installed THEN FALSE
    ELSE IF api_key = "" THEN FALSE
    ELSE TRUE

NoReply == [kind |-> "none", content |-> <<>>, detail |-> ""]
TextReply(c) == [kind |-> "text", content |-> c, detail |-> ""]
ErrorReply(e) == [kind |-> "error", content |-> <<>>, detail |-> e]

\* what makes the remote call raise (the last: choices[0].message.content is None)
Failures == {"network", "auth", "quota", "malformed response"}

DeclLine == <<"C", "r", "e", "a", "t", "e", " ", "P", "r", "o", "c", " ", "p">>
AlterLine == <<" ", " ", "A", "L", "T", "E", "R", " ", "P", "R", "O", "C", "E", "D", "U", "R", "E", " ", "q">>
GoLine == <<" ", "G", "o", "\t">>
BlankLine == <<" ">>
OtherLine == <<"S", "E", "L", "E", "C", "T", " ", "g", "o", " ", "-", "-", " ", "a", "l", "t", "e", "r", " ", "p", "r", "o", "c">>
LineSamples == {DeclLine, AlterLine, GoLine, <<>>, BlankLine, OtherLine}

RECURSIVE SeqsUpTo(_, _)
SeqsUpTo(S, n) ==
    IF n = 0 THEN {<<>>}
    ELSE LET shorter == SeqsUpTo(S, n - 1)
         IN  shorter \cup {Append(s, x) : s \in {q \in shorter : Len(q) = n - 1}, x \in S}

\* texts of up to n lines of S, joined by "\n" or by "\r\n"
Texts(S, n) ==
    {join(sep, ls) : sep \in {<<"\n">>, <<"\r", "\n">>}, ls \in SeqsUpTo(S, n)}

Scenario2 == <<"S", "E", "L", "E", "C", "T", " ", "1">>
Scenario3 == <<"C", "R", "E", "A", "T", "E", " ", "P", "R", "O", "C", "E", "D", "U", "R", "E", " ", "d", "b", "o", ".", "F", "o", "o", " ", "A", "S", " ", "B", "E", "G", "I", "N", " ", "S", "E", "L", "E", "C", "T", " ", "1", " ", "E", "N", "D">>

\* the raw texts submitted to the handler
RawTexts ==
    Texts({DeclLine, GoLine, <<>>, OtherLine}, MaxRawLines)
        \cup {Scenario2, Scenario3, BlankLine, AlterLine}

FullFunction ==
    <<"C", "R", "E", "A", "T", "E", " ", "O", "R", " ", "R", "E", "P", "L", "A", "C", "E", " ", "F", "U", "N", "C", "T", "I", "O", "N", " ", "f", "(", ")", " ", "R", "E", "T", "U", "R", "N", "S", " ", "V", "O", "I", "D", " ", "L", "A", "N", "G", "U", "A", "G", "E", " ", "p", "l", "p", "g", "s", "q", "l", " ", "A", "S", " ", "$", "$", " ", "B", "E", "G", "I", "N", " ", "E", "N", "D", ";", " ", "$", "$", ";">>
NoLanguage ==
    <<"C", "R", "E", "A", "T", "E", " ", "F", "U", "N", "C", "T", "I", "O", "N", " ", "f", "(", ")", " ", "R", "E", "T", "U", "R", "N", "S", " ", "V", "O", "I", "D", " ", "A", "S", " ", "$", "$", " ", "B", "E", "G", "I", "N", " ", "E", "N", "D", ";", " ", "$", "$", ";">>
Fenced == Fence \o <<"s", "q", "l", "\n">> \o FullFunction \o <<"\n">> \o Fence
Leftover == <<"C", "R", "E", "A", "T", "E", " ", "P", "R", "O", "C", "E", "D", "U", "R", "E", " ", "p", " ", "A", "S", " ", "S", "E", "L", "E", "C", "T", " ", "@", "x", "\n", "G", "O">>

\* the contents the completion service returns
Contents == {FullFunction, NoLanguage, Fenced, Leftover, <<>>, <<" ", "\n">>, Fence}

NoFile == [present |-> FALSE, filename |-> "", decodes |-> TRUE, text |-> <<>>]
Upload(name, t) == [present |-> TRUE, filename |-> name, decodes |-> TRUE, text |-> t]
BadUpload == [present |-> TRUE, filename |-> "proc.sql", decodes |-> FALSE, text |-> <<>>]

Form(m, f, t) == [method |-> m, file |-> f, sql_text |-> t]

Forms ==
    {Form("POST", NoFile, t) : t \in RawTexts}
    \cup {Form("POST", Upload("proc.sql", t), u) : t \in {<<>>, Scenario2, Scenario3}, u \in {<<>>, DeclLine}}
    \cup {Form("POST", Upload("", Scenario3), t) : t \in {<<>>, Scenario2}}
    \cup {Form("POST", BadUpload, DeclLine), Form("GET", NoFile, <<>>)}

NoForm == Form("", NoFile, <<>>)

----------------------------------------------------------------------------
\* The request handler, one action per stage

Reqs == DOMAIN pc

InitRequests(n) ==
    /\ pc = [r \in 1..n |-> "idle"]
    /\ request = [r \in 1..n |-> NoForm]
    /\ sql_text = [r \in 1..n |-> <<>>]
    /\ body = [r \in 1..n |-> <<>>]
    /\ reply = [r \in 1..n |-> NoReply]
    /\ result = [r \in 1..n |-> None]
    /\ issues = [r \in 1..n |-> <<>>]
    /\ returned = [r \in 1..n |-> None]
    /\ converted = [r \in 1..n |-> <<>>]
    /\ calls = [r \in 1..n |-> 0]
    /\ submits = [r \in 1..n |-> 0]
    /\ trace = [r \in 1..n |-> <<>>]
    /\ log = {}

\* the process after app.py was imported, whatever the environment held
Booted ==
    \E groq_installed \in BOOLEAN, api_key \in {"", "gsk"} :
        USE_AI = Startup(groq_installed, api_key)

Init ==
    /\ Booted
    /\ InitRequests(1)
    /\ fn_pc = "none"
    /\ fn_in = <<>>
    /\ fn_out = <<>>

\* lines 495-500: the raw text of a POST; the file wins when it has a filename
RawOf(form) ==
    IF form.file.present /\ form.file.filename # "" THEN form.file.text
    ELSE form.sql_text

\* index(), lines 492-504: up to the call of convert_to_postgresql.  A file that
\* is not UTF-8 makes decode raise outside the try: the request ends in an error.
index(r, forms) ==
    /\ pc[r] = "idle"
    /\ \E form \in forms :
        /\ request' = [request EXCEPT ![r] = form]
        /\ IF form.method # "POST"
           THEN /\ pc' = [pc EXCEPT ![r] = "rendered"]
                /\ UNCHANGED <<sql_text, calls>>
           ELSE IF form.file.present /\ form.file.filename # "" /\ ~form.file.decodes
           THEN /\ pc' = [pc EXCEPT ![r] = "raised"]
                /\ UNCHANGED <<sql_text, calls>>
           ELSE /\ sql_text' = [sql_text EXCEPT ![r] = RawOf(form)]
                /\ IF RawOf(form) # <<>>
                   THEN /\ pc' = [pc EXCEPT ![r] = "convert"]
                        /\ calls' = [calls EXCEPT ![r] = @ + 1]
                   ELSE /\ pc' = [pc EXCEPT ![r] = "rendered"]
                        /\ UNCHANGED calls
    /\ UNCHANGED <<USE_AI, body, reply, result, issues, returned, converted,
                   submits, trace, log, fn_pc, fn_in, fn_out>>

\* convert_to_postgresql, lines 319-329 and 344-353: up to the call of groq_convert_sql
convert_to_postgresql(r) ==
    /\ pc[r] = "convert"
    /\ IF sql_text[r] = <<>> \/ strip(sql_text[r]) = <<>>
       THEN /\ returned' = [returned EXCEPT ![r] = Some(EmptyInput)]
            /\ pc' = [pc EXCEPT ![r] = "returned"]
            /\ UNCHANGED <<body, trace, log>>
       ELSE /\ body' = [body EXCEPT ![r] = clean_sql_input(sql_text[r])]
            /\ trace' = [trace EXCEPT ![r] = Append(@, "normalize")]
            /\ IF body'[r] = <<>>
               THEN /\ returned' = [returned EXCEPT ![r] = Some(NoDeclarationFound)]
                    /\ pc' = [pc EXCEPT ![r] = "returned"]
                    /\ UNCHANGED log
               ELSE IF USE_AI
               THEN /\ log' = log \cup {[req |-> r, line |-> "Converting with Groq AI (Llama 3.3 70B)..."]}
                    /\ pc' = [pc EXCEPT ![r] = "groq"]
                    /\ UNCHANGED returned
               ELSE /\ returned' = [returned EXCEPT ![r] = Some(SetupInstructions)]
                    /\ pc' = [pc EXCEPT ![r] = "returned"]
                    /\ UNCHANGED log
    /\ UNCHANGED <<USE_AI, request, sql_text, reply, result, issues, converted,
                   calls, submits, fn_pc, fn_in, fn_out>>

\* groq_convert_sql, lines 50-271: the flag check, the prompt, and the completion
\* request handed to the client
groq_convert_sql(r) ==
    /\ pc[r] = "groq"
    /\ IF ~USE_AI
       THEN /\ result' = [result EXCEPT ![r] = None]
            /\ pc' = [pc EXCEPT ![r] = "annotate"]
            /\ UNCHANGED <<submits, trace>>
       ELSE /\ submits' = [submits EXCEPT ![r] = @ + 1]
            /\ trace' = [trace EXCEPT ![r] = Append(@, "submit")]
            /\ pc' = [pc EXCEPT ![r] = "remote"]
            /\ UNCHANGED result
    /\ UNCHANGED <<USE_AI, request, sql_text, body, reply, issues, returned,
                   converted, calls, log, fn_pc, fn_in, fn_out>>

\* lines 262-280: the call completes and its content is cleaned and returned
RemoteReturns(r, contents) ==
    /\ pc[r] = "remote"
    /\ \E content \in contents :
        /\ reply' = [reply EXCEPT ![r] = TextReply(content)]
        /\ result' = [result EXCEPT ![r] = Some(CleanMarkdown(content))]
    /\ pc' = [pc EXCEPT ![r] = "annotate"]
    /\ UNCHANGED <<USE_AI, request, sql_text, body, issues, returned, converted,
                   calls, submits, trace, log, fn_pc, fn_in, fn_out>>

\* mutant: a failed call is tried again
RemoteFails_Retry(r) ==
    /\ pc[r] = "remote"
    /\ \E e \in Failures :
        /\ reply' = [reply EXCEPT ![r] = ErrorReply(e)]
        /\ log' = log \cup {[req |-> r, line |-> "Groq Error: " \o e]}
    /\ result' = [result EXCEPT ![r] = None]
    /\ pc' = [pc EXCEPT ![r] = "groq"]
    /\ UNCHANGED <<USE_AI, request, sql_text, body, issues, returned, converted,
                   calls, submits, trace, fn_pc, fn_in, fn_out>>

\* mutant: the exception's text is returned in place of None
RemoteFails_Leaky(r) ==
    /\ pc[r] = "remote"
    /\ \E e \in Failures :
        /\ reply' = [reply EXCEPT ![r] = ErrorReply(e)]
        /\ log' = log \cup {[req |-> r, line |-> "Groq Error: " \o e]}
        /\ result' = [result EXCEPT ![r] = Some(<<"Groq Error: " \o e>>)]
    /\ pc' = [pc EXCEPT ![r] = "annotate"]
    /\ UNCHANGED <<USE_AI, request, sql_text, body, issues, returned, converted,
                   calls, submits, trace, fn_pc, fn_in, fn_out>>

\* mutant: a failed call switches the backend off for the whole process
RemoteFails_Disable(r) ==
    /\ pc[r] = "remote"
    /\ \E e \in Failures :
        /\ reply' = [reply EXCEPT ![r] = ErrorReply(e)]
        /\ log' = log \cup {[req |-> r, line |-> "Groq Error: " \o e]}
    /\ result' = [result EXCEPT ![r] = None]
    /\ USE_AI' = FALSE
    /\ pc' = [pc EXCEPT ![r] = "annotate"]
    /\ UNCHANGED <<request, sql_text, body, issues, returned, converted,
                   calls, submits, trace, fn_pc, fn_in, fn_out>>

\* lines 282-284: the call raises; the detail is printed and None is returned
RemoteFails(r) ==
    /\ pc[r] = "remote"
    /\ \E e \in Failures :
        /\ reply' = [reply EXCEPT ![r] = ErrorReply(e)]
        /\ log' = log \cup {[req |-> r, line |-> "Groq Error: " \o e]}
    /\ result' = [result EXCEPT ![r] = None]
    /\ pc' = [pc EXCEPT ![r] = "annotate"]
    /\ UNCHANGED <<USE_AI, request, sql_text, body, issues, returned, converted,
                   calls, submits, trace, fn_pc, fn_in, fn_out>>

\* convert_to_postgresql, lines 331-343: validation and the banner, or the
\* failure sentinel
annotate(r) ==
    /\ pc[r] = "annotate"
    /\ IF Truthy(result[r])
       THEN /\ issues' = [issues EXCEPT ![r] = validate_postgresql(result[r][1])]
            /\ trace' = [trace EXCEPT ![r] = Append(@, "validate")]
            /\ returned' = [returned EXCEPT ![r] = Some(Annotate(result[r][1]))]
       ELSE /\ returned' = [returned EXCEPT ![r] = Some(BackendCallFailed)]
            /\ UNCHANGED <<issues, trace>>
    /\ pc' = [pc EXCEPT ![r] = "returned"]
    /\ UNCHANGED <<USE_AI, request, sql_text, body, reply, result, converted,
                   calls, submits, log, fn_pc, fn_in, fn_out>>

\* index(), lines 504 and 510: the value is assigned to converted and rendered
render(r) ==
    /\ pc[r] = "returned"
    /\ converted' = [converted EXCEPT ![r] = returned[r][1]]
    /\ pc' = [pc EXCEPT ![r] = "rendered"]
    /\ UNCHANGED <<USE_AI, request, sql_text, body, reply, result, issues, returned,
                   calls, submits, trace, log, fn_pc, fn_in, fn_out>>

Next ==
    \/ \E r \in Reqs : index(r, Forms)
    \/ \E r \in Reqs : convert_to_postgresql(r)
    \/ \E r \in Reqs : groq_convert_sql(r)
    \/ \E r \in Reqs : RemoteReturns(r, Contents)
    \/ \E r \in Reqs : RemoteFails(r)
    \/ \E r \in Reqs : annotate(r)
    \/ \E r \in Reqs : render(r)

Spec == Init /\ [][Next]_vars

----------------------------------------------------------------------------
\* Concurrent requests: NumRequests handlers interleaved stage by stage

ConcForms == {Form("POST", NoFile, t) : t \in {DeclLine, Scenario2, BlankLine}}
ConcContents == {NoLanguage, <<" ", "\n">>}

InitConc ==
    /\ Booted
    /\ InitRequests(NumRequests)
    /\ fn_pc = "none"
    /\ fn_in = <<>>
    /\ fn_out = <<>>

NextConc ==
    \/ \E r \in Reqs : index(r, ConcForms)
    \/ \E r \in Reqs : convert_to_postgresql(r)
    \/ \E r \in Reqs : groq_convert_sql(r)
    \/ \E r \in Reqs : RemoteReturns(r, ConcContents)
    \/ \E r \in Reqs : RemoteFails(r)
    \/ \E r \in Reqs : annotate(r)
    \/ \E r \in Reqs : render(r)

SpecConc == InitConc /\ [][NextConc]_vars

----------------------------------------------------------------------------
\* The pure functions applied to every text of a bounded set

RECURSIVE Flatten(_)
Flatten(parts) == IF parts = <<>> THEN <<>> ELSE parts[1] \o Flatten(Tail(parts))

\* the five required clauses of a function text, and the five residues
RequiredParts ==
    << <<"C", "R", "E", "A", "T", "E", " ", "O", "R", " ", "R", "E", "P", "L", "A", "C", "E", " ", "F", "U", "N", "C", "T", "I", "O", "N", " ", "f", "(", ")", " ">>,
       <<"r", "e", "t", "u", "r", "n", "s", "\t", "t", "a", "b", "l", "e", "(", "x", " ", "i", "n", "t", ")", " ">>,
       <<"L", "A", "N", "G", "U", "A", "G", "E", " ", " ", "P", "L", "p", "g", "S", "Q", "L", " ">>,
       <<"A", "S", " ", "$", "$", " ">>,
       <<"$", "$", " ", ";", "\n">> >>
ResidueParts ==
    << <<"S", "E", "L", "E", "C", "T", " ", "@", "x", ";", " ">>,
       <<"G", "O", "\n">>,
       <<"C", "r", "e", "a", "t", "e", " ", " ", "P", "r", "o", "c", "e", "d", "u", "r", "e", " ", "p", " ">>,
       <<"S", "E", "T", " ", "N", "O", "C", "O", "U", "N", "T", " ", "O", "N", ";", " ">>,
       <<"S", "E", "L", "E", "C", "T", " ", "g", "e", "t", "d", "a", "t", "e", "(", ")", ";", " ">> >>
\* near misses of the residue patterns, present in every candidate
Decoy == <<"B", "E", "G", "I", "N", " ", "G", "O", "T", "O", " ", "a", "@", " ", "b", ";", " ", "G", "E", "T", "D", "A", "T", "E", "(", " ", ")", ";", " ", "E", "N", "D", ";", " ">>

PartsOf(parts, chosen) ==
    Flatten([i \in DOMAIN parts |-> IF i \in chosen THEN parts[i] ELSE <<>>])

\* the required clauses in R, the residues in S, the closing delimiter last
Compose(R, S) ==
    PartsOf(RequiredParts, R \ {5}) \o Decoy \o PartsOf(ResidueParts, S)
        \o PartsOf(RequiredParts, R \cap {5})

Candidates ==
    {Compose(R, S) : R \in SUBSET (1..5),
                     S \in {T \in SUBSET (1..5) : Cardinality(T) <= MaxResidues}}

InitFn(inputs) ==
    /\ USE_AI = Startup(FALSE, "")
    /\ InitRequests(0)
    /\ fn_pc = "in"
    /\ fn_in \in inputs
    /\ fn_out = <<>>

ApplyClean ==
    /\ fn_pc = "in"
    /\ fn_out' = clean_sql_input(fn_in)
    /\ fn_pc' = "out"
    /\ UNCHANGED <<USE_AI, pc, request, sql_text, body, reply, result, issues, returned,
                   converted, calls, submits, trace, log, fn_in>>

ApplyValidate ==
    /\ fn_pc = "in"
    /\ fn_out' = validate_postgresql(fn_in)
    /\ fn_pc' = "out"
    /\ UNCHANGED <<USE_AI, pc, request, sql_text, body, reply, result, issues, returned,
                   converted, calls, submits, trace, log, fn_in>>

InitClean == InitFn(Texts(LineSamples, MaxLines))
SpecClean == InitClean /\ [][ApplyClean]_vars

InitValidate == InitFn(Candidates)
SpecValidate == InitValidate /\ [][ApplyValidate]_vars

----------------------------------------------------------------------------
\* convert_to_postgresql called directly with every raw text

InitConvert ==
    /\ Booted
    /\ InitRequests(1)
    /\ fn_pc = "none"
    /\ fn_in = <<>>
    /\ fn_out = <<>>

\* the caller's call: convert_to_postgresql(raw)
Call(r, raws) ==
    /\ pc[r] = "idle"
    /\ \E raw \in raws : sql_text' = [sql_text EXCEPT ![r] = raw]
    /\ calls' = [calls EXCEPT ![r] = @ + 1]
    /\ pc' = [pc EXCEPT ![r] = "convert"]
    /\ UNCHANGED <<USE_AI, request, body, reply, result, issues, returned, converted,
                   submits, trace, log, fn_pc, fn_in, fn_out>>

NextConvert ==
    \/ \E r \in Reqs : Call(r, RawTexts)
    \/ \E r \in Reqs : convert_to_postgresql(r)
    \/ \E r \in Reqs : groq_convert_sql(r)
    \/ \E r \in Reqs : RemoteReturns(r, Contents)
    \/ \E r \in Reqs : RemoteFails(r)
    \/ \E r \in Reqs : annotate(r)

SpecConvert == InitConvert /\ [][NextConvert]_vars

\* convert_to_postgresql run on its own, start to end, given the flag and what
\* the backend does when called (lines 317-353 with 48-51 and 273-284)
ConvertAlone(raw, flag, rep) ==
    IF raw = <<>> \/ strip(raw) = <<>> THEN EmptyInput
    ELSE IF clean_sql_input(raw) = <<>> THEN NoDeclarationFound
    ELSE IF ~flag THEN SetupInstructions
    ELSE LET res == IF rep.kind = "text" THEN Some(CleanMarkdown(rep.content)) ELSE None
         IN  IF Truthy(res) THEN Annotate(res[1]) ELSE BackendCallFailed

----------------------------------------------------------------------------
\* Properties.  The helpers below restate what the specification says, apart
\* from the definitions that model the code.

DeclarationStart == { <<"c", "r", "e", "a", "t", "e", " ", "p", "r", "o", "c", "e", "d", "u", "r", "e">>, <<"c", "r", "e", "a", "t", "e", " ", "p", "r", "o", "c">>, <<"a", "l", "t", "e", "r", " ", "p", "r", "o", "c", "e", "d", "u", "r", "e">>, <<"a", "l", "t", "e", "r", " ", "p", "r", "o", "c">> }

\* a line that, trimmed and lower-cased, begins with a declaration-start prefix
IsDeclarationLine(line) ==
    \E prefix \in DeclarationStart : startswith(lower(strip(line)), prefix)

\* empty or whitespace-only
IsBlank(text) == \A i \in DOMAIN text : IsSpace(text[i])

IsGo(line) == lower(strip(line)) = <<"g", "o">>

HasReturned(r) == returned[r] # None

\* C1: convert_to_postgresql returns the outcome of the first applicable step of
\* the fixed order: blank input -> EmptyInput; empty normalized body ->
\* NoDeclarationFound; backend unconfigured -> setup instructions; translator
\* returned absent -> BackendCallFailed; otherwise banner + translated text.
C1_Expected(r) ==
    IF IsBlank(sql_text[r]) THEN EmptyInput
    ELSE IF clean_sql_input(sql_text[r]) = <<>> THEN NoDeclarationFound
    ELSE IF ~USE_AI THEN SetupInstructions
    ELSE IF result[r] = None THEN BackendCallFailed
    ELSE Annotate(result[r][1])

\* C1: whenever convert_to_postgresql has returned, its value is the outcome of
\* the first applicable step.
C1_FirstApplicableStep ==
    \A r \in Reqs : HasReturned(r) => returned[r][1] = C1_Expected(r)

\* C2 as stated: for every input without a declaration line, clean_sql_input
\* returns the empty text and convert_to_postgresql returns NoDeclarationFound.
C2_NoDeclarationSentinel ==
    \A r \in Reqs :
        HasReturned(r) /\ ~(\E line \in Range(splitlines(sql_text[r])) : IsDeclarationLine(line))
            => /\ clean_sql_input(sql_text[r]) = <<>>
               /\ returned[r][1] = NoDeclarationFound

\* C2 amended: for every input without a declaration line, clean_sql_input
\* returns the empty text, and convert_to_postgresql returns NoDeclarationFound
\* unless the input is empty or whitespace-only, when it returns EmptyInput.
C2_NoDeclarationUnlessBlank ==
    \A r \in Reqs :
        HasReturned(r) /\ ~(\E line \in Range(splitlines(sql_text[r])) : IsDeclarationLine(line))
            => /\ clean_sql_input(sql_text[r]) = <<>>
               /\ returned[r][1] = IF IsBlank(sql_text[r]) THEN EmptyInput
                                   ELSE NoDeclarationFound

\* scenario 2: "SELECT 1" was normalized to nothing and answered with the sentinel
C2_Witness ==
    \E r \in Reqs :
        /\ sql_text[r] = Scenario2
        /\ trace[r] = <<"normalize">> /\ body[r] = <<>>
        /\ returned[r] = Some(NoDeclarationFound)

\* C3: the output of clean_sql_input is empty, or it is the first declaration
\* line of the input followed by exactly the later lines that are neither blank
\* nor "go", in their order; so every retained line is non-blank and not "go",
\* and the first retained line is a declaration line.
C3_RetainedLines ==
    fn_pc = "out" =>
        LET lines == splitlines(fn_in)
            decls == {i \in DOMAIN lines : IsDeclarationLine(lines[i])}
            kept  == splitlines(fn_out)
        IN  IF decls = {}
            THEN fn_out = <<>>
            ELSE LET first == Min(decls)
                     later == SelectSeq(SubSeq(lines, first + 1, Len(lines)),
                                        LAMBDA line : ~IsBlank(line) /\ ~IsGo(line))
                 IN  /\ kept = <<lines[first]>> \o later
                     /\ fn_out = join(<<"\n">>, kept)
                     /\ \A i \in DOMAIN kept : ~IsBlank(kept[i]) /\ ~IsGo(kept[i])
                     /\ IsDeclarationLine(kept[1])

\* a preamble line and a "go" line of the body were dropped, a body line was kept
C3_Witness ==
    /\ fn_pc = "out"
    /\ fn_in = join(<<"\r", "\n">>, <<OtherLine, AlterLine, GoLine, OtherLine>>)
    /\ fn_out = join(<<"\n">>, <<AlterLine, OtherLine>>)

\* C4: the completion request is submitted at most once per conversion and
\* never again after a failure: once when the input is non-blank, the normalized
\* body non-empty and the backend configured, otherwise not at all; and it comes
\* after normalization and before validation.
C4_SingleSubmission ==
    \A r \in Reqs :
        /\ submits[r] <= 1
        /\ trace[r] \in {<<>>, <<"normalize">>, <<"normalize", "submit">>,
                         <<"normalize", "submit", "validate">>}
        /\ HasReturned(r) =>
               submits[r] = IF /\ ~IsBlank(sql_text[r])
                               /\ clean_sql_input(sql_text[r]) # <<>>
                               /\ USE_AI
                            THEN 1 ELSE 0

\* a conversion whose only request failed has returned
C4_Witness ==
    \E r \in Reqs : HasReturned(r) /\ reply[r].kind = "error" /\ submits[r] = 1

\* C5: with the backend configured and the remote call completed without
\* failure, the validator is called and a banner with the translated text is
\* returned; BackendCallFailed is returned only when the remote call failed.
C5_FailedOnlyOnFailure ==
    \A r \in Reqs :
        /\ HasReturned(r) /\ USE_AI /\ reply[r].kind = "text"
               => /\ trace[r] = <<"normalize", "submit", "validate">>
                  /\ returned[r][1] = Annotate(CleanMarkdown(reply[r].content))
        /\ HasReturned(r) /\ returned[r][1] = BackendCallFailed
               => reply[r].kind = "error"

\* C6: when the remote call fails the returned text is the fixed
\* BackendCallFailed sentinel whatever the failure was, and the failure's
\* detail is in the operational log.
C6_FailureDetailHidden ==
    \A r \in Reqs :
        HasReturned(r) /\ reply[r].kind = "error"
            => /\ returned[r][1] = BackendCallFailed
               /\ [req |-> r, line |-> "Groq Error: " \o reply[r].detail] \in log

\* a conversion whose remote call failed on quota has returned
C6_Witness ==
    \E r \in Reqs : HasReturned(r) /\ reply[r] = ErrorReply("quota")

\* C7: validate_postgresql returns the sub-sequence of the ten messages (the
\* five required-present ones, then the five residue ones) of those whose
\* condition holds: a required pattern not found, a residue pattern found.
Checklist ==
    << [required |-> TRUE,  pattern |-> "CREATE FUNCTION",  message |-> "Missing CREATE FUNCTION"],
       [required |-> TRUE,  pattern |-> "RETURNS",          message |-> "Missing RETURNS clause"],
       [required |-> TRUE,  pattern |-> "LANGUAGE",         message |-> "Missing LANGUAGE plpgsql"],
       [required |-> TRUE,  pattern |-> "AS $$",            message |-> "Missing AS $$ delimiter"],
       [required |-> TRUE,  pattern |-> "$$",               message |-> "Missing closing $$"],
       [required |-> FALSE, pattern |-> "@",                message |-> "Contains @ symbols (should be p_ or v_)"],
       [required |-> FALSE, pattern |-> "GO",               message |-> "Contains GO statement"],
       [required |-> FALSE, pattern |-> "CREATE PROCEDURE", message |-> "Contains CREATE PROCEDURE"],
       [required |-> FALSE, pattern |-> "SET NOCOUNT",      message |-> "Contains SET NOCOUNT"],
       [required |-> FALSE, pattern |-> "GETDATE()",        message |-> "Contains GETDATE() (should be CURRENT_TIMESTAMP)"] >>

Triggered(check, text) == check.required # re_search(check.pattern, text)

\* C7: the report is exactly the triggered messages in checklist order, each
\* once, as many as there are triggered conditions.
C7_ReportIsChecklistSubsequence ==
    fn_pc = "out" =>
        LET triggered == SelectSeq(Checklist, LAMBDA check : Triggered(check, fn_in))
        IN  /\ fn_out = [i \in DOMAIN triggered |-> triggered[i].message]
            /\ Len(fn_out) = Cardinality({i \in DOMAIN Checklist : Triggered(Checklist[i], fn_in)})
            /\ \A i, j \in DOMAIN fn_out : fn_out[i] = fn_out[j] => i = j

\* a text without its LANGUAGE clause and with a GO batch separator was validated
C7_Witness ==
    /\ fn_pc = "out"
    /\ fn_in = Compose({1, 2, 4, 5}, {2})
    /\ fn_out = <<"Missing LANGUAGE plpgsql", "Contains GO statement">>

C9_SameAsAlone ==
    \A r \in Reqs :
        HasReturned(r) => returned[r][1] = ConvertAlone(sql_text[r], USE_AI, reply[r])

C9_OwnStateOnly ==
    /\ USE_AI' = USE_AI
    /\ \E r \in Reqs : \A q \in Reqs \ {r} :
           /\ pc'[q] = pc[q] /\ request'[q] = request[q] /\ sql_text'[q] = sql_text[q]
           /\ body'[q] = body[q] /\ reply'[q] = reply[q] /\ result'[q] = result[q]
           /\ issues'[q] = issues[q] /\ returned'[q] = returned[q]
           /\ converted'[q] = converted[q]

\* C9: in every interleaving each conversion returns what it returns alone, and
\* every step leaves USE_AI and the other requests' data unchanged.
C9_NoInterference == []C9_SameAsAlone /\ [][C9_OwnStateOnly]_vars

\* two conversions ran together, one failed at the backend, the other got text
C9_Witness ==
    \E r, q \in Reqs :
        /\ r # q /\ HasReturned(r) /\ HasReturned(q)
        /\ reply[r].kind = "error"
        /\ reply[q] = TextReply(NoLanguage) /\ returned[q][1] = Annotate(NoLanguage)

\* C10: every POST triggers exactly one call of convert_to_postgresql, on the
\* file's content if a file is supplied and else on the text field, and shows
\* its return value; a POST whose raw text is empty shows EmptyInput.
C10_OneCallPerPost ==
    \A r \in Reqs :
        pc[r] = "rendered" /\ request[r].method = "POST"
            => /\ calls[r] = 1
               /\ HasReturned(r)
               /\ sql_text[r] = RawOf(request[r])
               /\ converted[r] = returned[r][1]
               /\ RawOf(request[r]) = <<>> => converted[r] = EmptyInput

----------------------------------------------------------------------------
\* groq_convert_sql's cleaning of the returned content, applied to every
\* content of up to MaxPieces pieces

FencePieces == {Fence, <<"s", "q", "l">>, <<"P", "o", "s", "t", "g", "r", "e", "S", "Q", "L">>, <<"\n">>, <<" ">>, <<"S", "E", "L", "E", "C", "T", " ", "1", ";">>}

FencedContents == {Flatten(ps) : ps \in SeqsUpTo(FencePieces, MaxPieces)}

ApplyCleanMarkdown ==
    /\ fn_pc = "in"
    /\ fn_out' = CleanMarkdown(fn_in)
    /\ fn_pc' = "out"
    /\ UNCHANGED <<USE_AI, pc, request, sql_text, body, reply, result, issues, returned,
                   converted, calls, submits, trace, log, fn_in>>

InitFence == InitFn(FencedContents)
SpecFence == InitFence /\ [][ApplyCleanMarkdown]_vars

endswith(s, suffix) ==
    Len(suffix) <= Len(s) /\ SubSeq(s, Len(s) - Len(suffix) + 1, Len(s)) = suffix

\* C11: on a successful call the value groq_convert_sql returns has no leading
\* or trailing whitespace, neither starts nor ends with a triple-backtick fence
\* marker (with or without a newline next to it, one marker or several), and is
\* a stretch of the returned content, unchanged.
C11_FencesRemoved ==
    fn_pc = "out" =>
        /\ fn_out # <<>> => ~IsSpace(fn_out[1]) /\ ~IsSpace(fn_out[Len(fn_out)])
        /\ ~startswith(fn_out, Fence)
        /\ ~endswith(fn_out, Fence)
        /\ \E i \in 1..(Len(fn_in) + 1) : \E j \in 0..Len(fn_in) : fn_out = SubSeq(fn_in, i, j)

----------------------------------------------------------------------------
\* A normalized body fed back: the first call converts a raw text, the second
\* converts clean_sql_input of that text; both are followed up to the call of
\* the translator

RefeedTexts == Texts(LineSamples, MaxLines - 1)

InitRefeed ==
    /\ Booted
    /\ InitRequests(2)
    /\ fn_pc = "none"
    /\ fn_in = <<>>
    /\ fn_out = <<>>

\* past lines 319-329: returned early, or about to call groq_convert_sql
PastNormalization(r) == pc[r] \in {"returned", "groq"}

\* the caller's second call: convert_to_postgresql(clean_sql_input(raw))
Refeed(first, second) ==
    /\ PastNormalization(first)
    /\ pc[second] = "idle"
    /\ sql_text' = [sql_text EXCEPT ![second] = clean_sql_input(sql_text[first])]
    /\ calls' = [calls EXCEPT ![second] = @ + 1]
    /\ pc' = [pc EXCEPT ![second] = "convert"]
    /\ UNCHANGED <<USE_AI, request, body, reply, result, issues, returned, converted,
                   submits, trace, log, fn_pc, fn_in, fn_out>>

NextRefeed ==
    \/ Call(1, RefeedTexts)
    \/ Refeed(1, 2)
    \/ \E r \in Reqs : convert_to_postgresql(r)

SpecRefeed == InitRefeed /\ [][NextRefeed]_vars

\* the branch convert_to_postgresql took, once past normalization
Branch(r) ==
    CASE returned[r] = Some(EmptyInput)         -> "EmptyInput"
      [] returned[r] = Some(NoDeclarationFound) -> "NoDeclarationFound"
      [] returned[r] = Some(SetupInstructions)  -> "BackendUnconfigured"
      [] pc[r] = "groq"                         -> "Translate"

\* C12 as stated: clean_sql_input is idempotent, and the normalized body fed back
\* into convert_to_postgresql takes the same branch with the same body as the
\* original input.
C12_RefeedSameBranch ==
    PastNormalization(1) /\ PastNormalization(2) =>
        /\ clean_sql_input(clean_sql_input(sql_text[1])) = clean_sql_input(sql_text[1])
        /\ Branch(2) = Branch(1)
        /\ body[2] = body[1]

\* C12 amended: clean_sql_input is idempotent; a non-empty normalized body fed
\* back takes the same branch with the same body as the original input, and an
\* empty one fed back is answered with EmptyInput.
C12_RefeedSameBranchUnlessEmpty ==
    PastNormalization(1) /\ PastNormalization(2) =>
        /\ sql_text[2] = clean_sql_input(sql_text[1])
        /\ clean_sql_input(sql_text[2]) = sql_text[2]
        /\ IF sql_text[2] # <<>>
           THEN Branch(2) = Branch(1) /\ body[2] = body[1] /\ body[2] = sql_text[2]
           ELSE Branch(2) = "EmptyInput"

\* a text that normalization shortened went to the translator, and so did its body
C12_Witness ==
    /\ sql_text[1] = join(<<"\r", "\n">>, <<OtherLine, AlterLine, GoLine>>)
    /\ sql_text[2] = AlterLine
    /\ Branch(1) = "Translate" /\ pc[2] = "groq"
    /\ body[2] = body[1]

====
